---------------------------- MODULE Spec2Model ----------------------------
(***************************************************************************)
(* Model of generate_postman.py: the line scanner parse_route_file and the *)
(* driver generate_collection that folds the extracted routes into one     *)
(* Postman collection document and writes it once.                         *)
(*                                                                         *)
(* Texts are strings; the Python string methods and the regular expression *)
(* the scanner uses are computed character by character.                   *)
(***************************************************************************)
EXTENDS Integers, Sequences, FiniteSets, TLC

(***************************************************************************)
(* Bounds of the model.                                                    *)
(***************************************************************************)
\* number of chunks of text a scanned file is made of (SpecScan)
MaxChunks == 2
\* number of files of the mapping that are found under ROUTES_DIR (Spec)
MaxPresent == 2

(***************************************************************************)
(* Python string methods.                                                  *)
(***************************************************************************)
Char(s, k) == SubSeq(s, k, k)

\* characters str.strip() removes and the regex class \s matches: space, tab,
\* line feed, vertical tab, form feed, carriage return, the separators 0x1c to
\* 0x1f, next line (U+0085), no-break space (U+00A0) and the Ogham space mark
\* (U+1680), each written as itself. The other spaces of Unicode (U+2000 to
\* U+200A, U+2028, U+2029, U+202F, U+205F, U+3000) are among the characters
\* a string of this notation cannot hold (see the letter cases below), so no
\* text of the model has one.
Whitespace ==
    {" ", "\t", "\n", "", "\f", "\r", "", "", "", "", "", " ",
     " "}

startswith(s, p) == Len(s) >= Len(p) /\ SubSeq(s, 1, Len(p)) = p

endswith(s, p) == Len(s) >= Len(p) /\ SubSeq(s, Len(s) - Len(p) + 1, Len(s)) = p

\* the least member of a non-empty set of positions
Least(ks) == CHOOSE k \in ks : \A h \in ks : k <= h

\* str.find, 1-based; 0 when sub does not occur in s
find(s, sub) ==
    LET hits == {k \in 1..(Len(s) - Len(sub) + 1) : SubSeq(s, k, k + Len(sub) - 1) = sub}
    IN  IF hits = {} THEN 0 ELSE Least(hits)

\* the Python operator `sub in s`
contains(s, sub) == find(s, sub) # 0

RECURSIVE lstrip(_)
lstrip(s) ==
    IF Len(s) > 0 /\ Char(s, 1) \in Whitespace THEN lstrip(SubSeq(s, 2, Len(s))) ELSE s

RECURSIVE rstrip(_)
rstrip(s) ==
    IF Len(s) > 0 /\ Char(s, Len(s)) \in Whitespace THEN rstrip(SubSeq(s, 1, Len(s) - 1)) ELSE s

strip(s) == rstrip(lstrip(s))

\* str.replace(old, new): every occurrence, left to right, not overlapping
RECURSIVE replace(_, _, _)
replace(s, old, new) ==
    LET k == find(s, old)
    IN  IF k = 0 THEN s
        ELSE SubSeq(s, 1, k - 1) \o new \o replace(SubSeq(s, k + Len(old), Len(s)), old, new)

\* open(filepath, 'r').read(): text mode turns each carriage return + line
\* feed, and each remaining carriage return, into one line feed
read_text(content) == replace(replace(content, "\r\n", "\n"), "\r", "\n")

\* str.split(sep)
RECURSIVE split(_, _)
split(s, sep) ==
    LET k == find(s, sep)
    IN  IF k = 0 THEN <<s>>
        ELSE <<SubSeq(s, 1, k - 1)>> \o split(SubSeq(s, k + Len(sep), Len(s)), sep)

(***************************************************************************)
(* The letter cases of str.upper(), str.lower() and str.capitalize(), from *)
(* the Unicode data of the interpreter. Each table pairs, position by      *)
(* position, the characters a conversion changes with what it makes of     *)
(* them. A string of this notation holds the characters up to U+00FF, the  *)
(* grave accent U+0060 excepted, and, above, those whose code ends in a    *)
(* byte of 0x80 or more; a character whose converted form falls outside    *)
(* them is listed apart and the conversion is left undefined on it.        *)
(***************************************************************************)
\* the characters of a text, as a set
chars(s) == {Char(s, k) : k \in 1..Len(s)}

LowerFrom ==
    "ABCDEFGHIJKLMNOPQRSTUVWXYZÀÁÂÃÄÅÆÇÈÉÊËÌÍÎÏÐÑÒÓÔÕÖØÙÚÛÜÝÞƂƄƇƋ"
    \o "ƎƑƘƠƢƤƦƧƩƬƮƯƱƲƳƵƷƸƼǄǅǇǈǊǋǍǏǑǓǕǗǙǛǞǠǢǤǦǨǪǬǮǱǲǴǶǷǸǺǼǾΆΈΉΊΌΎΏΑΒ"
    \o "ΓΔΕΖΗΘΙΚΛΜΝΞΟΠΡΣΤΥΦΧΨΩΪΫϏϘϚϜϞϠϢϤϦϨϪϬϮϴϷϹϺҀҊҌҎҐҒҔҖҘҚҜҞҠҢҤҦҨҪҬ"
    \o "ҮҰҲҴҶҸҺҼҾӀӁӃӅӇӉӋӍӐӒӔӖӘӚӜӞӠӢӤӦӨӪӬӮӰӲӴӶӸӺӼӾᎰᎱᎲᎳᎴᎵᎶᎷᎸᎹᎺᎻᎼᎽᎾᎿᏀᏁᏂ"
    \o "ᏃᏄᏅᏆᏇᏈᏉᏊᏋᏌᏍᏎᏏᏐᏑᏒᏓᏔᏕᏖᏗᏘᏙᏚᏛᏜᏝᏞᏟᏠᏡᏢᏣᏤᏥᏦᏧᏨᏩᏪᏫᏬᏭᏮᏯᏰᏱᏲᏳᏴᏵᲐᲑᲒᲓᲔᲕᲖᲗᲘ"
    \o "ᲙᲚᲛᲜᲝᲞᲟᲠᲡᲢᲣᲤᲥᲦᲧᲨᲩᲪᲫᲬᲭᲮᲯᲰᲱᲲᲳᲴᲵᲶᲷᲸᲹᲺᲽᲾᲿẀẂẄẆẈẊẌẎẐẒẔẞẠẢẤẦẨẪẬẮẰẲẴ"
    \o "ẶẸẺẼẾỀỂỄỆỈỊỌỎỐỒỔỖỘỚỜỞỠỢỤỦỨỪỬỮỰỲỴỶỸỺỼỾᾈᾉᾊᾋᾌᾍᾎᾏᾘᾙᾚᾛᾜᾝᾞᾟᾨᾩᾪᾫᾬᾭᾮ"
    \o "ᾯᾸᾹᾼῌῘῙῨῩῬῼↃⒶⒷⒸⒹⒺⒻⒼⒽⒾⒿⓀⓁⓂⓃⓄⓅⓆⓇⓈⓉⓊⓋⓌⓍⓎⓏⲀⲂⲄⲆⲈⲊⲌⲎⲐⲒⲔⲖⲘⲚⲜⲞⲠⲢⲤⲦⲨⲪ"
    \o "ⲬⲮⲰⲲⲴⲶⲸⲺⲼⲾⳀⳂⳄⳆⳈⳊⳌⳎⳐⳒⳔⳖⳘⳚⳜⳞⳠⳢⳫⳭⳲꚀꚂꚄꚆꚈꚊꚌꚎꚐꚒꚔꚖꚘꚚꞀꞂꞄꞆꞋꞐꞒꞖꞘꞚꞜꞞꞠꞢꞤ"
    \o "ꞦꞨꞰꞱꞲꞴꞶꞸꞺꞼꞾꟀꟂꟄꟅꟆꟇꟉꟐꟖꟘꟵ"

LowerTo ==
    "abcdefghijklmnopqrstuvwxyzàáâãäåæçèéêëìíîïðñòóôõöøùúûüýþƃƅƈƌ"
    \o "ǝƒƙơƣƥʀƨʃƭʈưʊʋƴƶʒƹƽǆǆǉǉǌǌǎǐǒǔǖǘǚǜǟǡǣǥǧǩǫǭǯǳǳǵƕƿǹǻǽǿάέήίόύώαβ"
    \o "γδεζηθικλμνξοπρστυφχψωϊϋϗϙϛϝϟϡϣϥϧϩϫϭϯθϸϲϻҁҋҍҏґғҕҗҙқҝҟҡңҥҧҩҫҭ"
    \o "үұҳҵҷҹһҽҿӏӂӄӆӈӊӌӎӑӓӕӗәӛӝӟӡӣӥӧөӫӭӯӱӳӵӷӹӻӽӿꮀꮁꮂꮃꮄꮅꮆꮇꮈꮉꮊꮋꮌꮍꮎꮏꮐꮑꮒ"
    \o "ꮓꮔꮕꮖꮗꮘꮙꮚꮛꮜꮝꮞꮟꮠꮡꮢꮣꮤꮥꮦꮧꮨꮩꮪꮫꮬꮭꮮꮯꮰꮱꮲꮳꮴꮵꮶꮷꮸꮹꮺꮻꮼꮽꮾꮿᏸᏹᏺᏻᏼᏽაბგდევზთი"
    \o "კლმნოპჟრსტუფქღყშჩცძწჭხჯჰჱჲჳჴჵჶჷჸჹჺჽჾჿẁẃẅẇẉẋẍẏẑẓẕßạảấầẩẫậắằẳẵ"
    \o "ặẹẻẽếềểễệỉịọỏốồổỗộớờởỡợụủứừửữựỳỵỷỹỻỽỿᾀᾁᾂᾃᾄᾅᾆᾇᾐᾑᾒᾓᾔᾕᾖᾗᾠᾡᾢᾣᾤᾥᾦ"
    \o "ᾧᾰᾱᾳῃῐῑῠῡῥῳↄⓐⓑⓒⓓⓔⓕⓖⓗⓘⓙⓚⓛⓜⓝⓞⓟⓠⓡⓢⓣⓤⓥⓦⓧⓨⓩⲁⲃⲅⲇⲉⲋⲍⲏⲑⲓⲕⲗⲙⲛⲝⲟⲡⲣⲥⲧⲩⲫ"
    \o "ⲭⲯⲱⲳⲵⲷⲹⲻⲽⲿⳁⳃⳅⳇⳉⳋⳍⳏⳑⳓⳕⳗⳙⳛⳝⳟⳡⳣⳬⳮⳳꚁꚃꚅꚇꚉꚋꚍꚏꚑꚓꚕꚗꚙꚛꞁꞃꞅꞇꞌꞑꞓꞗꞙꞛꞝꞟꞡꞣꞥ"
    \o "ꞧꞩʞʇʝꞵꞷꞹꞻꞽꞿꟁꟃꞔʂᶎꟈꟊꟑꟗꟙꟶ"

\* characters whose lower-case form cannot be written
NoLower ==
    "ƁƆƉƊƏƐƓƔƖƗƜƝƟϽϾϿႠႡႢႣႤႥႦႧႨႩႪႫႬႭႮႯႰႱႲႳႴႵႶႷႸႹႺႻႼႽႾႿჀჁჂჃჄჅჇჍᎠᎡᎢᎣ"
    \o "ᎤᎥᎦᎧᎨᎩᎪᎫᎬᎭᎮᎯᾺΆῈΈῊΉῚΊῪΎῸΌῺΏꞍꞪꞫꞬꞭꞮꞳ"

UpperFrom ==
    "abcdefghijklmnopqrstuvwxyzµàáâãäåæçèéêëìíîïðñòóôõöøùúûüýþƃƅƈ"
    \o "ƌƒƕƙơƣƥƨƭưƴƶƹƽƿǅǆǈǉǋǌǎǐǒǔǖǘǚǜǝǟǡǣǥǧǩǫǭǯǲǳǵǹǻǽǿʀʂʃʇʈʊʋʒʝʞάέήί"
    \o "αβγδεζηθικλμνξοπρςστυφχψωϊϋόύώϐϑϕϖϗϙϛϝϟϡϣϥϧϩϫϭϯϰϱϲϵϸϻҁҋҍҏґғҕ"
    \o "җҙқҝҟҡңҥҧҩҫҭүұҳҵҷҹһҽҿӂӄӆӈӊӌӎӏӑӓӕӗәӛӝӟӡӣӥӧөӫӭӯӱӳӵӷӹӻӽӿაბგდევზ"
    \o "თიკლმნოპჟრსტუფქღყშჩცძწჭხჯჰჱჲჳჴჵჶჷჸჹჺჽჾჿᏸᏹᏺᏻᏼᏽᶎẁẃẅẇẉẋẍẏẑẓẕạảấ"
    \o "ầẩẫậắằẳẵặẹẻẽếềểễệỉịọỏốồổỗộớờởỡợụủứừửữựỳỵỷỹỻỽỿᾰᾱιῐῑῠῡῥↄⓐⓑⓒⓓⓔⓕ"
    \o "ⓖⓗⓘⓙⓚⓛⓜⓝⓞⓟⓠⓡⓢⓣⓤⓥⓦⓧⓨⓩⲁⲃⲅⲇⲉⲋⲍⲏⲑⲓⲕⲗⲙⲛⲝⲟⲡⲣⲥⲧⲩⲫⲭⲯⲱⲳⲵⲷⲹⲻⲽⲿⳁⳃⳅⳇⳉⳋⳍⳏ"
    \o "ⳑⳓⳕⳗⳙⳛⳝⳟⳡⳣⳬⳮⳳꚁꚃꚅꚇꚉꚋꚍꚏꚑꚓꚕꚗꚙꚛꞁꞃꞅꞇꞌꞑꞓꞔꞗꞙꞛꞝꞟꞡꞣꞥꞧꞩꞵꞷꞹꞻꞽꞿꟁꟃꟈꟊꟑꟗꟙꟶꮀ"
    \o "ꮁꮂꮃꮄꮅꮆꮇꮈꮉꮊꮋꮌꮍꮎꮏꮐꮑꮒꮓꮔꮕꮖꮗꮘꮙꮚꮛꮜꮝꮞꮟꮠꮡꮢꮣꮤꮥꮦꮧꮨꮩꮪꮫꮬꮭꮮꮯꮰꮱꮲꮳꮴꮵꮶꮷꮸꮹꮺꮻꮼ"
    \o "ꮽꮾꮿ"

UpperTo ==
    "ABCDEFGHIJKLMNOPQRSTUVWXYZΜÀÁÂÃÄÅÆÇÈÉÊËÌÍÎÏÐÑÒÓÔÕÖØÙÚÛÜÝÞƂƄƇ"
    \o "ƋƑǶƘƠƢƤƧƬƯƳƵƸƼǷǄǄǇǇǊǊǍǏǑǓǕǗǙǛƎǞǠǢǤǦǨǪǬǮǱǱǴǸǺǼǾƦꟅƩꞱƮƱƲƷꞲꞰΆΈΉΊ"
    \o "ΑΒΓΔΕΖΗΘΙΚΛΜΝΞΟΠΡΣΣΤΥΦΧΨΩΪΫΌΎΏΒΘΦΠϏϘϚϜϞϠϢϤϦϨϪϬϮΚΡϹΕϷϺҀҊҌҎҐҒҔ"
    \o "ҖҘҚҜҞҠҢҤҦҨҪҬҮҰҲҴҶҸҺҼҾӁӃӅӇӉӋӍӀӐӒӔӖӘӚӜӞӠӢӤӦӨӪӬӮӰӲӴӶӸӺӼӾᲐᲑᲒᲓᲔᲕᲖ"
    \o "ᲗᲘᲙᲚᲛᲜᲝᲞᲟᲠᲡᲢᲣᲤᲥᲦᲧᲨᲩᲪᲫᲬᲭᲮᲯᲰᲱᲲᲳᲴᲵᲶᲷᲸᲹᲺᲽᲾᲿᏰᏱᏲᏳᏴᏵꟆẀẂẄẆẈẊẌẎẐẒẔẠẢẤ"
    \o "ẦẨẪẬẮẰẲẴẶẸẺẼẾỀỂỄỆỈỊỌỎỐỒỔỖỘỚỜỞỠỢỤỦỨỪỬỮỰỲỴỶỸỺỼỾᾸᾹΙῘῙῨῩῬↃⒶⒷⒸⒹⒺⒻ"
    \o "ⒼⒽⒾⒿⓀⓁⓂⓃⓄⓅⓆⓇⓈⓉⓊⓋⓌⓍⓎⓏⲀⲂⲄⲆⲈⲊⲌⲎⲐⲒⲔⲖⲘⲚⲜⲞⲠⲢⲤⲦⲨⲪⲬⲮⲰⲲⲴⲶⲸⲺⲼⲾⳀⳂⳄⳆⳈⳊⳌⳎ"
    \o "ⳐⳒⳔⳖⳘⳚⳜⳞⳠⳢⳫⳭⳲꚀꚂꚄꚆꚈꚊꚌꚎꚐꚒꚔꚖꚘꚚꞀꞂꞄꞆꞋꞐꞒꟄꞖꞘꞚꞜꞞꞠꞢꞤꞦꞨꞴꞶꞸꞺꞼꞾꟀꟂꟇꟉꟐꟖꟘꟵᎰ"
    \o "ᎱᎲᎳᎴᎵᎶᎷᎸᎹᎺᎻᎼᎽᎾᎿᏀᏁᏂᏃᏄᏅᏆᏇᏈᏉᏊᏋᏌᏍᏎᏏᏐᏑᏒᏓᏔᏕᏖᏗᏘᏙᏚᏛᏜᏝᏞᏟᏠᏡᏢᏣᏤᏥᏦᏧᏨᏩᏪᏫᏬ"
    \o "ᏭᏮᏯ"

\* characters str.upper() turns into several
UpperManyFrom ==
    "ßẚᾲᾳᾴᾼῂῃῄῌῲῳῴῼ"

UpperManyTo ==
    <<"SS", "Aʾ", "ᾺΙ", "ΑΙ", "ΆΙ", "ΑΙ", "ῊΙ", "ΗΙ", "ΉΙ", "ΗΙ", "ῺΙ", "ΩΙ", "ΏΙ", "ΩΙ">>

\* characters whose upper-case form cannot be written
NoUpper ==
    "ÿƀƚƞǰʉʌΐΰϳրցւփքօֆևᲀᲁᲂᲃᲄᲅᲆᲇᲈẖẗẘẙẛᾀᾁᾂᾃᾄᾅᾆᾇᾈᾉᾊᾋᾌᾍᾎᾏᾐᾑᾒᾓᾔᾕᾖᾗᾘᾙᾚᾛ"
    \o "ᾜᾝᾞᾟᾠᾡᾢᾣᾤᾥᾦᾧᾨᾩᾪᾫᾬᾭᾮᾯᾶᾷῆῇῒΐῖῗῢΰῤῦῧῶῷ"

TitleFrom ==
    "abcdefghijklmnopqrstuvwxyzµàáâãäåæçèéêëìíîïðñòóôõöøùúûüýþƃƅƈ"
    \o "ƌƒƕƙơƣƥƨƭưƴƶƹƽƿǄǆǇǉǊǌǎǐǒǔǖǘǚǜǝǟǡǣǥǧǩǫǭǯǱǳǵǹǻǽǿʀʂʃʇʈʊʋʒʝʞάέήί"
    \o "αβγδεζηθικλμνξοπρςστυφχψωϊϋόύώϐϑϕϖϗϙϛϝϟϡϣϥϧϩϫϭϯϰϱϲϵϸϻҁҋҍҏґғҕ"
    \o "җҙқҝҟҡңҥҧҩҫҭүұҳҵҷҹһҽҿӂӄӆӈӊӌӎӏӑӓӕӗәӛӝӟӡӣӥӧөӫӭӯӱӳӵӷӹӻӽӿᏸᏹᏺᏻᏼᏽᶎ"
    \o "ẁẃẅẇẉẋẍẏẑẓẕạảấầẩẫậắằẳẵặẹẻẽếềểễệỉịọỏốồổỗộớờởỡợụủứừửữựỳỵỷỹỻỽỿᾀ"
    \o "ᾁᾂᾃᾄᾅᾆᾇᾐᾑᾒᾓᾔᾕᾖᾗᾠᾡᾢᾣᾤᾥᾦᾧᾰᾱᾳιῃῐῑῠῡῥῳↄⓐⓑⓒⓓⓔⓕⓖⓗⓘⓙⓚⓛⓜⓝⓞⓟⓠⓡⓢⓣⓤⓥⓦⓧⓨ"
    \o "ⓩⲁⲃⲅⲇⲉⲋⲍⲏⲑⲓⲕⲗⲙⲛⲝⲟⲡⲣⲥⲧⲩⲫⲭⲯⲱⲳⲵⲷⲹⲻⲽⲿⳁⳃⳅⳇⳉⳋⳍⳏⳑⳓⳕⳗⳙⳛⳝⳟⳡⳣⳬⳮⳳꚁꚃꚅꚇꚉꚋ"
    \o "ꚍꚏꚑꚓꚕꚗꚙꚛꞁꞃꞅꞇꞌꞑꞓꞔꞗꞙꞛꞝꞟꞡꞣꞥꞧꞩꞵꞷꞹꞻꞽꞿꟁꟃꟈꟊꟑꟗꟙꟶꮀꮁꮂꮃꮄꮅꮆꮇꮈꮉꮊꮋꮌꮍꮎꮏꮐꮑꮒꮓ"
    \o "ꮔꮕꮖꮗꮘꮙꮚꮛꮜꮝꮞꮟꮠꮡꮢꮣꮤꮥꮦꮧꮨꮩꮪꮫꮬꮭꮮꮯꮰꮱꮲꮳꮴꮵꮶꮷꮸꮹꮺꮻꮼꮽꮾꮿ"

TitleTo ==
    "ABCDEFGHIJKLMNOPQRSTUVWXYZΜÀÁÂÃÄÅÆÇÈÉÊËÌÍÎÏÐÑÒÓÔÕÖØÙÚÛÜÝÞƂƄƇ"
    \o "ƋƑǶƘƠƢƤƧƬƯƳƵƸƼǷǅǅǈǈǋǋǍǏǑǓǕǗǙǛƎǞǠǢǤǦǨǪǬǮǲǲǴǸǺǼǾƦꟅƩꞱƮƱƲƷꞲꞰΆΈΉΊ"
    \o "ΑΒΓΔΕΖΗΘΙΚΛΜΝΞΟΠΡΣΣΤΥΦΧΨΩΪΫΌΎΏΒΘΦΠϏϘϚϜϞϠϢϤϦϨϪϬϮΚΡϹΕϷϺҀҊҌҎҐҒҔ"
    \o "ҖҘҚҜҞҠҢҤҦҨҪҬҮҰҲҴҶҸҺҼҾӁӃӅӇӉӋӍӀӐӒӔӖӘӚӜӞӠӢӤӦӨӪӬӮӰӲӴӶӸӺӼӾᏰᏱᏲᏳᏴᏵꟆ"
    \o "ẀẂẄẆẈẊẌẎẐẒẔẠẢẤẦẨẪẬẮẰẲẴẶẸẺẼẾỀỂỄỆỈỊỌỎỐỒỔỖỘỚỜỞỠỢỤỦỨỪỬỮỰỲỴỶỸỺỼỾᾈ"
    \o "ᾉᾊᾋᾌᾍᾎᾏᾘᾙᾚᾛᾜᾝᾞᾟᾨᾩᾪᾫᾬᾭᾮᾯᾸᾹᾼΙῌῘῙῨῩῬῼↃⒶⒷⒸⒹⒺⒻⒼⒽⒾⒿⓀⓁⓂⓃⓄⓅⓆⓇⓈⓉⓊⓋⓌⓍⓎ"
    \o "ⓏⲀⲂⲄⲆⲈⲊⲌⲎⲐⲒⲔⲖⲘⲚⲜⲞⲠⲢⲤⲦⲨⲪⲬⲮⲰⲲⲴⲶⲸⲺⲼⲾⳀⳂⳄⳆⳈⳊⳌⳎⳐⳒⳔⳖⳘⳚⳜⳞⳠⳢⳫⳭⳲꚀꚂꚄꚆꚈꚊ"
    \o "ꚌꚎꚐꚒꚔꚖꚘꚚꞀꞂꞄꞆꞋꞐꞒꟄꞖꞘꞚꞜꞞꞠꞢꞤꞦꞨꞴꞶꞸꞺꞼꞾꟀꟂꟇꟉꟐꟖꟘꟵᎰᎱᎲᎳᎴᎵᎶᎷᎸᎹᎺᎻᎼᎽᎾᎿᏀᏁᏂᏃ"
    \o "ᏄᏅᏆᏇᏈᏉᏊᏋᏌᏍᏎᏏᏐᏑᏒᏓᏔᏕᏖᏗᏘᏙᏚᏛᏜᏝᏞᏟᏠᏡᏢᏣᏤᏥᏦᏧᏨᏩᏪᏫᏬᏭᏮᏯ"

\* characters whose title-case form is several characters
TitleManyFrom ==
    "ßẚ"

TitleManyTo ==
    <<"Ss", "Aʾ">>

\* characters whose title-case form cannot be written
NoTitle ==
    "ÿƀƚƞǰʉʌΐΰϳրցւփքօֆևᲀᲁᲂᲃᲄᲅᲆᲇᲈẖẗẘẙẛᾲᾴᾶᾷῂῄῆῇῒΐῖῗῢΰῤῦῧῲῴῶῷ"

\* the cased characters, and those a letter case looks through, that decide
\* which lower-case form a capital sigma takes
Cased ==
    "ABCDEFGHIJKLMNOPQRSTUVWXYZabcdefghijklmnopqrstuvwxyzªµºÀÁÂÃÄ"
    \o "ÅÆÇÈÉÊËÌÍÎÏÐÑÒÓÔÕÖØÙÚÛÜÝÞßàáâãäåæçèéêëìíîïðñòóôõöøùúûüýþÿƀƁƂ"
    \o "ƃƄƅƆƇƈƉƊƋƌƍƎƏƐƑƒƓƔƕƖƗƘƙƚƛƜƝƞƟƠơƢƣƤƥƦƧƨƩƪƫƬƭƮƯưƱƲƳƴƵƶƷƸƹƺƼƽƾƿ"
    \o "ǄǅǆǇǈǉǊǋǌǍǎǏǐǑǒǓǔǕǖǗǘǙǚǛǜǝǞǟǠǡǢǣǤǥǦǧǨǩǪǫǬǭǮǯǰǱǲǳǴǵǶǷǸǹǺǻǼǽǾǿ"
    \o "ʀʁʂʃʄʅʆʇʈʉʊʋʌʍʎʏʐʑʒʓʕʖʗʘʙʚʛʜʝʞʟʠʡʢʣʤʥʦʧʨʩʪʫʬʭʮʯΆΈΉΊΌΎΏΐΑΒΓΔΕ"
    \o "ΖΗΘΙΚΛΜΝΞΟΠΡΣΤΥΦΧΨΩΪΫάέήίΰαβγδεζηθικλμνξοπρςστυφχψωϊϋόύώϏϐϑϒ"
    \o "ϓϔϕϖϗϘϙϚϛϜϝϞϟϠϡϢϣϤϥϦϧϨϩϪϫϬϭϮϯϰϱϲϳϴϵϷϸϹϺϻϼϽϾϿҀҁҊҋҌҍҎҏҐґҒғҔҕҖҗ"
    \o "ҘҙҚқҜҝҞҟҠҡҢңҤҥҦҧҨҩҪҫҬҭҮүҰұҲҳҴҵҶҷҸҹҺһҼҽҾҿӀӁӂӃӄӅӆӇӈӉӊӋӌӍӎӏӐӑӒӓ"
    \o "ӔӕӖӗӘәӚӛӜӝӞӟӠӡӢӣӤӥӦӧӨөӪӫӬӭӮӯӰӱӲӳӴӵӶӷӸӹӺӻӼӽӾӿրցւփքօֆևֈႠႡႢႣႤႥႦ"
    \o "ႧႨႩႪႫႬႭႮႯႰႱႲႳႴႵႶႷႸႹႺႻႼႽႾႿჀჁჂჃჄჅჇჍაბგდევზთიკლმნოპჟრსტუფქღყშჩც"
    \o "ძწჭხჯჰჱჲჳჴჵჶჷჸჹჺჽჾჿᎠᎡᎢᎣᎤᎥᎦᎧᎨᎩᎪᎫᎬᎭᎮᎯᎰᎱᎲᎳᎴᎵᎶᎷᎸᎹᎺᎻᎼᎽᎾᎿᏀᏁᏂᏃᏄᏅᏆᏇᏈ"
    \o "ᏉᏊᏋᏌᏍᏎᏏᏐᏑᏒᏓᏔᏕᏖᏗᏘᏙᏚᏛᏜᏝᏞᏟᏠᏡᏢᏣᏤᏥᏦᏧᏨᏩᏪᏫᏬᏭᏮᏯᏰᏱᏲᏳᏴᏵᏸᏹᏺᏻᏼᏽᲀᲁᲂᲃᲄᲅᲆᲇᲈ"
    \o "ᲐᲑᲒᲓᲔᲕᲖᲗᲘᲙᲚᲛᲜᲝᲞᲟᲠᲡᲢᲣᲤᲥᲦᲧᲨᲩᲪᲫᲬᲭᲮᲯᲰᲱᲲᲳᲴᲵᲶᲷᲸᲹᲺᲽᲾᲿᶀᶁᶂᶃᶄᶅᶆᶇᶈᶉᶊᶋᶌᶍ"
    \o "ᶎᶏᶐᶑᶒᶓᶔᶕᶖᶗᶘᶙᶚẀẁẂẃẄẅẆẇẈẉẊẋẌẍẎẏẐẑẒẓẔẕẖẗẘẙẚẛẜẝẞẟẠạẢảẤấẦầẨẩẪẫẬậẮ"
    \o "ắẰằẲẳẴẵẶặẸẹẺẻẼẽẾếỀềỂểỄễỆệỈỉỊịỌọỎỏỐốỒồỔổỖỗỘộỚớỜờỞởỠỡỢợỤụỦủỨứỪ"
    \o "ừỬửỮữỰựỲỳỴỵỶỷỸỹỺỻỼỽỾỿᾀᾁᾂᾃᾄᾅᾆᾇᾈᾉᾊᾋᾌᾍᾎᾏᾐᾑᾒᾓᾔᾕᾖᾗᾘᾙᾚᾛᾜᾝᾞᾟᾠᾡᾢᾣᾤᾥᾦ"
    \o "ᾧᾨᾩᾪᾫᾬᾭᾮᾯᾰᾱᾲᾳᾴᾶᾷᾸᾹᾺΆᾼιῂῃῄῆῇῈΈῊΉῌῐῑῒΐῖῗῘῙῚΊῠῡῢΰῤῥῦῧῨῩῪΎῬῲῳῴῶῷ"
    \o "ῸΌῺΏῼↃↄⒶⒷⒸⒹⒺⒻⒼⒽⒾⒿⓀⓁⓂⓃⓄⓅⓆⓇⓈⓉⓊⓋⓌⓍⓎⓏⓐⓑⓒⓓⓔⓕⓖⓗⓘⓙⓚⓛⓜⓝⓞⓟⓠⓡⓢⓣⓤⓥⓦⓧⓨⓩⲀ"
    \o "ⲁⲂⲃⲄⲅⲆⲇⲈⲉⲊⲋⲌⲍⲎⲏⲐⲑⲒⲓⲔⲕⲖⲗⲘⲙⲚⲛⲜⲝⲞⲟⲠⲡⲢⲣⲤⲥⲦⲧⲨⲩⲪⲫⲬⲭⲮⲯⲰⲱⲲⲳⲴⲵⲶⲷⲸⲹⲺⲻⲼ"
    \o "ⲽⲾⲿⳀⳁⳂⳃⳄⳅⳆⳇⳈⳉⳊⳋⳌⳍⳎⳏⳐⳑⳒⳓⳔⳕⳖⳗⳘⳙⳚⳛⳜⳝⳞⳟⳠⳡⳢⳣⳤⳫⳬⳭⳮⳲⳳꚀꚁꚂꚃꚄꚅꚆꚇꚈꚉꚊꚋꚌꚍ"
    \o "ꚎꚏꚐꚑꚒꚓꚔꚕꚖꚗꚘꚙꚚꚛꞀꞁꞂꞃꞄꞅꞆꞇꞋꞌꞍꞎꞐꞑꞒꞓꞔꞕꞖꞗꞘꞙꞚꞛꞜꞝꞞꞟꞠꞡꞢꞣꞤꞥꞦꞧꞨꞩꞪꞫꞬꞭꞮꞯꞰꞱ"
    \o "ꞲꞳꞴꞵꞶꞷꞸꞹꞺꞻꞼꞽꞾꞿꟀꟁꟂꟃꟄꟅꟆꟇꟈꟉꟊꟐꟑꟓꟕꟖꟗꟘꟙꟵꟶꟺꮀꮁꮂꮃꮄꮅꮆꮇꮈꮉꮊꮋꮌꮍꮎꮏꮐꮑꮒꮓꮔꮕꮖꮗ"
    \o "ꮘꮙꮚꮛꮜꮝꮞꮟꮠꮡꮢꮣꮤꮥꮦꮧꮨꮩꮪꮫꮬꮭꮮꮯꮰꮱꮲꮳꮴꮵꮶꮷꮸꮹꮺꮻꮼꮽꮾꮿ"

CaseIgnorable ==
    "'.:^¨­¯´·¸ʰʱʲʳʴʵʶʷʸʹʺʻʼʽʾʿˀˁ˂˃˄˅ˆˇˈˉˊˋˌˍˎˏːˑ˒˓˔˕˖˗˘˙˚˛˜˝˞˟ˠˡ"
    \o "ˢˣˤ˥˦˧˨˩˪˫ˬ˭ˮ˯˰˱˲˳˴˵˶˷˸˹˺˻˼˽˾˿΄΅·҃҄҅҆҇҈҉֑֖֛֢֣֤֚֒֓֔֕֗֘֙֜֝֞֟֠֡"
    \o "ְֱֲֳִֵֶַָׇֹֺֻּֽֿׁׂ֥֦֧֪ׅ֭֮֨֩֫֬֯ׄ״ۖۗۘۙۚۛۜ۝ۣ۟۠ۡۢۤۥۦ۪ۭۧۨ۫۬ަާިީުޫ"
    \o "ެޭޮޯް߲߫߬߭߮߯߰߱߳ߴߵߺ߽࢈࢐࢑࢙࢚࢛࢘࢜࢝࢞࢟ࣉ࣏࣐࣑࣒࣓࣊࣋࣌࣍࣎ࣔࣕࣖࣗࣘࣙࣚࣛࣜࣝࣞࣟ࣠࣡࣢ࣣࣦࣤࣥࣧ"
    \o "ࣰࣱࣲࣩ࣭࣮࣯ࣶࣹࣺࣨ࣪࣫࣬ࣳࣴࣵࣷࣸࣻࣼࣽࣾࣿঁ়ুূৃৄ্ৢৣ৾ઁં઼ુૂૃૄૅેૈ્ૢૣૺૻૼ૽૾૿ஂீ்ಁ಼ಿೆ"
    \o "ೌ್ೢೣඁ්ිීුූັິີຶື຺ຸູົຼໆ່້໊໋໌ໍ྄ཱྀྀྂྃ྆྇ྍྎྏྐྑྒྒྷྔྕྖྗྙྚྛྜྜྷྞྟྠྡྡྷྣྤྥྦྦྷ"
    \o "ྨྩྪྫྫྷྭྮྯྰྱྲླྴྵྶྷྸྐྵྺྻྼ࿆ႂႅႆႍႝჼ឴឵ិីឹឺុូួំ៉៊់៌៍៎៏័៑្៓ៗ៝ᢅᢆᢩᪧ᪰᪱᪲᪳᪴"
    \o "᪵᪶᪷᪸᪹᪺᪽᪻᪼᪾ᪿᫀ᫃᫄᫊᫁᫂᫅᫆᫇᫈᫉᫋ᫌᫍᫎᮀᮁᮢᮣᮤᮥᮨᮩ᮫ᮬᮭ᯦ᯨᯩᯭᯯᯰᯱ᳔᳕᳖᳗᳘᳙᳜᳝᳞᳟᳐᳑᳒᳚᳛᳠"
    \o "᳢᳣᳤᳥᳦᳧᳨᳭᳴᳸᳹ᶛᶜᶝᶞᶟᶠᶡᶢᶣᶤᶥᶦᶧᶨᶩᶪᶫᶬᶭᶮᶯᶰᶱᶲᶳᶴᶵᶶᶷᶸᶹᶺᶻᶼᶽᶾᶿ᷂᷊᷀᷁᷃᷄᷅᷆᷇᷈᷉᷋"
    \o "᷐᷎᷺᷏᷹᷽᷿᷷᷸᷌᷑᷒ᷓᷔᷕᷖᷗᷘᷙᷚᷛᷜᷝᷞᷟᷠᷡᷢᷣᷤᷥᷦᷧᷨᷩᷪᷫᷬᷭᷮᷯᷰᷱᷲᷳᷴ᷵᷻᷾᷶᷼᷍᾽᾿῀῁῍῎῏῝"
    \o "῞῟῭΅`´῾ₐₑₒₓₔₕₖₗₘₙₚₛₜ⃒⃓⃘⃙⃚⃐⃑⃔⃕⃖⃗⃛⃜⃝⃞⃟⃠⃡⃢⃣⃤⃥⃦⃪⃫⃨⃬⃭⃮⃯⃧⃩⃰⳯⳰⳱ⷠⷡⷢⷣ"
    \o "゙゚ⷤⷥⷦⷧⷨⷩⷪⷫⷬⷭⷮⷯⷰⷱⷲⷳⷴⷵⷶⷷⷸⷹⷺⷻⷼⷽⷾⷿ゛゜ゝゞーヽヾꓸꓹꓺꓻꓼꓽꚜꚝꚞꚟ꛰꛱ꞈ꞉꞊ꟲꟳꟴꟸꟹ꣄ꣅ꣠"
    \o "꣡꣢꣣꣤꣥꣦꣧꣨꣩꣪꣫꣬꣭꣮꣯꣰꣱ꣿꦀꦁꦂ꦳ꦶꦷꦸꦹꦼꦽꧏꧥꧦꪴꪰꪲꪳꪷꪸꪾ꪿꫁ꫝꫬꫭꫳꫴ꫶ꯥꯨ꯭﮲﮳﮴﮵﮶﮷﮸﮹﮺﮻﮼"
    \o "﮽﮾﮿﯀﯁﯂﻿ﾞﾟ￣￹￺￻"

LowerOf == [c \in chars(LowerFrom) |-> Char(LowerTo, find(LowerFrom, c))]

UpperOf ==
    [c \in chars(UpperFrom) \cup chars(UpperManyFrom) |->
        IF find(UpperFrom, c) # 0 THEN Char(UpperTo, find(UpperFrom, c))
        ELSE UpperManyTo[find(UpperManyFrom, c)]]

TitleOf ==
    [c \in chars(TitleFrom) \cup chars(TitleManyFrom) |->
        IF find(TitleFrom, c) # 0 THEN Char(TitleTo, find(TitleFrom, c))
        ELSE TitleManyTo[find(TitleManyFrom, c)]]

NoLowerSet == chars(NoLower)

NoUpperSet == chars(NoUpper)

NoTitleSet == chars(NoTitle)

CasedSet == chars(Cased)

CaseIgnorableSet == chars(CaseIgnorable)

\* str.upper() of one character
upper_char(c) ==
    CASE c \in DOMAIN UpperOf -> UpperOf[c]
      [] c \notin DOMAIN UpperOf /\ c \notin NoUpperSet -> c

\* the title case of one character, which str.capitalize() gives the first
title_char(c) ==
    CASE c \in DOMAIN TitleOf -> TitleOf[c]
      [] c \notin DOMAIN TitleOf /\ c \notin NoTitleSet -> c

\* str.lower() of one character other than the capital sigma in a word
lower_char(c) ==
    CASE c \in DOMAIN LowerOf -> LowerOf[c]
      [] c \notin DOMAIN LowerOf /\ c \notin NoLowerSet -> c

RECURSIVE upper(_)
upper(s) == IF s = "" THEN "" ELSE upper_char(Char(s, 1)) \o upper(SubSeq(s, 2, Len(s)))

\* the capital sigma at position k of s ends a word: a cased character
\* stands before it and none after it, characters a case looks through
\* set aside
final_sigma(s, k) ==
    LET before == {j \in 1..(k - 1) : Char(s, j) \notin CaseIgnorableSet}
        after  == {j \in (k + 1)..Len(s) : Char(s, j) \notin CaseIgnorableSet}
        Most(js) == CHOOSE j \in js : \A h \in js : h <= j
    IN  /\ before # {}
        /\ Char(s, Most(before)) \in CasedSet
        /\ after # {} => Char(s, Least(after)) \notin CasedSet

\* str.lower() of the characters of s from position k on
RECURSIVE lower_from(_, _)
lower_from(s, k) ==
    IF k > Len(s) THEN ""
    ELSE (IF Char(s, k) = "Σ"
          THEN (IF final_sigma(s, k) THEN "ς" ELSE "σ")
          ELSE lower_char(Char(s, k)))
         \o lower_from(s, k + 1)

\* variant: .upper() where .capitalize() was meant
capitalize_upper(s) == upper(s)

\* str.capitalize(): first character title-cased, the rest lower-cased
capitalize(s) ==
    IF s = "" THEN "" ELSE title_char(Char(s, 1)) \o lower_from(s, 2)


(***************************************************************************)
(* The route pattern of parse_route_file,                                  *)
(*   router. METHOD spaces ( spaces QUOTE sub-path QUOTE                   *)
(* with METHOD one of get, post, put, delete, patch and the sub-path any   *)
(* run of characters that holds no quote,                                  *)
(* matched the way re.search matches it: at the leftmost position where    *)
(* the whole pattern fits. No flag is passed, so the match is sensitive to *)
(* letter case.                                                            *)
(***************************************************************************)
At(s, k) == IF k >= 1 /\ k <= Len(s) THEN SubSeq(s, k, k) ELSE ""

\* variant: the pattern compiled to ignore letter case
MethodsIgnoringCase ==
    <<"get", "post", "put", "delete", "patch",
      "GET", "POST", "PUT", "DELETE", "PATCH",
      "Get", "Post", "Put", "Delete", "Patch">>

Methods == <<"get", "post", "put", "delete", "patch">>

Quotes == {"'", "\""}

\* \s* : the first position at or after k that holds no whitespace
skip_space(s, k) ==
    Least({j \in k..(Len(s) + 1) : At(s, j) \notin Whitespace} \cup {Len(s) + k + 1})

\* the run of unquoted characters: the first position at or after k that
\* holds a quote, or the position after the end
skip_unquoted(s, k) ==
    Least({j \in k..(Len(s) + 1) : j > Len(s) \/ At(s, j) \in Quotes} \cup {Len(s) + k + 1})

\* s holds p at position k
holds_at(s, k, p) == k + Len(p) - 1 <= Len(s) /\ SubSeq(s, k, k + Len(p) - 1) = p

NoMatch == [found |-> FALSE, method |-> "", path |-> "", start |-> 0, end |-> 0]

\* the pattern anchored at position k of s, over the method spellings ms
match_at(s, k, ms) ==
    LET after == k + Len("router.")
        alts  == {m \in 1..Len(ms) : holds_at(s, after, ms[m])}
    IN  IF ~(holds_at(s, k, "router.") /\ alts # {}) THEN NoMatch
        ELSE LET m      == ms[Least(alts)]
                 paren  == skip_space(s, after + Len(m))
                 open   == skip_space(s, paren + 1)
                 close  == skip_unquoted(s, open + 1)
             IN  IF At(s, paren) = "(" /\ At(s, open) \in Quotes /\ At(s, close) \in Quotes
                 THEN [found |-> TRUE, method |-> m,
                       path |-> SubSeq(s, open + 1, close - 1),
                       start |-> k, end |-> close]
                 ELSE NoMatch

\* re.search(pattern, s) from position k on
search_from(s, k, ms) ==
    LET hits == {j \in k..Len(s) : match_at(s, j, ms).found}
    IN  IF hits = {} THEN NoMatch ELSE match_at(s, Least(hits), ms)

re_search(s) == search_from(s, 1, Methods)

(***************************************************************************)
(* The line classification and the pieces of one scanner step.             *)
(***************************************************************************)
is_comment_line(line) ==
    startswith(line, "/**") \/ startswith(line, "*") \/ startswith(line, "//")

clean_comment(line) ==
    strip(replace(replace(replace(replace(line, "/**", ""), "*/", ""), "*", ""), "//", ""))

\* the documentation buffer after a comment line
capture_comment(current_comment, line) ==
    LET kept == IF startswith(line, "/**") THEN <<>> ELSE current_comment
    IN  IF clean_comment(line) # "" THEN Append(kept, clean_comment(line)) ELSE kept

\* variant: the length of the path is not looked at
full_path_of_any_length(base_path, path) ==
    LET full_path == base_path \o path
    IN  IF endswith(full_path, "/")
        THEN SubSeq(full_path, 1, Len(full_path) - 1)
        ELSE full_path

\* base path + sub-path, one trailing slash removed unless the path is the root
full_path_of(base_path, path) ==
    LET full_path == base_path \o path
    IN  IF endswith(full_path, "/") /\ Len(full_path) > 1
        THEN SubSeq(full_path, 1, Len(full_path) - 1)
        ELSE full_path

\* the text a '@desc' comment contributes
desc_text(comment) == strip(replace(comment, "@desc", ""))

\* the loop over the buffered comments: description and name after it
RECURSIVE describe(_, _, _, _)
describe(comments, k, description, name) ==
    IF k > Len(comments) THEN [description |-> description, name |-> name]
    ELSE LET comment == comments[k]
         IN  IF contains(comment, "@desc")
             THEN describe(comments, k + 1, desc_text(comment), desc_text(comment))
             ELSE IF ~contains(comment, "@route") /\ ~contains(comment, "@access")
                     /\ description = ""
             THEN describe(comments, k + 1, comment, name)
             ELSE describe(comments, k + 1, description, name)

\* the record appended for a matched line
route_record(match, base_path, current_comment) ==
    LET method    == upper(match.method)
        path      == match.path
        full_path == full_path_of(base_path, path)
        d         == describe(current_comment, 1, "", method \o " " \o path)
    IN  [name        |-> d.name,
         method      |-> method,
         path        |-> full_path,
         description |-> IF d.description = "" THEN method \o " " \o full_path
                         ELSE d.description]

\* variant: the record is put in front
emit_route_first(routes, record) == <<record>> \o routes

\* routes.append(...)
emit_route(routes, record) == Append(routes, record)

\* variant: the buffer survives the route
reset_comment_keeps(current_comment) == current_comment

\* the buffer after a route has been emitted
reset_comment(current_comment) == <<>>

\* variant: code lines never clear the buffer
after_code_line_keeps(current_comment, line) == current_comment

\* the buffer after a line that is neither comment, route nor blank
after_code_line(current_comment, line) ==
    IF ~startswith(line, "router.") THEN <<>> ELSE current_comment

(***************************************************************************)
(* The collection document of generate_collection.                         *)
(***************************************************************************)
ROUTES_DIR == "/Users/justinemahinyila/Codez/wexp/wexp-backend/src/routes"

OUTPUT_FILE == "/Users/justinemahinyila/Codez/wexp/wexp-backend/wexp_postman_collection.json"

EmptyCollection ==
    [info |-> [name        |-> "WEXP Backend API",
               description |-> "Auto-generated Postman collection for WEXP Backend",
               schema      |-> "https://schema.getpostman.com/json/collection/v2.1.0/collection.json"],
     item |-> <<>>]

\* variant: PATCH is left out
BodyMethods_post_put == {"POST", "PUT"}

BodyMethods == {"POST", "PUT", "PATCH"}

RawBody == [mode |-> "raw", raw |-> "{\n    \n}"]

NonEmpty(p) == p # ""

request_item(route) ==
    LET request ==
            [method      |-> route.method,
             header      |-> <<[key |-> "Content-Type", value |-> "application/json"],
                               [key |-> "Authorization", value |-> "Bearer {{token}}"]>>,
             url         |-> [raw  |-> "{{base_url}}" \o route.path,
                              host |-> <<"{{base_url}}">>,
                              path |-> SelectSeq(split(route.path, "/"), NonEmpty)],
             description |-> route.description]
    IN  [name     |-> route.name,
         request  |-> IF route.method \in BodyMethods
                      THEN request @@ [body |-> RawBody]
                      ELSE request,
         response |-> <<>>]

folder_name(base_path) == capitalize(replace(replace(base_path, "/api/", ""), "/", ""))

RECURSIVE request_items(_)
request_items(routes) ==
    IF routes = <<>> THEN <<>>
    ELSE <<request_item(Head(routes))>> \o request_items(Tail(routes))

folder_of(base_path, routes) ==
    [name |-> folder_name(base_path), item |-> request_items(routes)]

\* variant: the folder is put in front
add_folder_first(collection, folder) == [collection EXCEPT !.item = <<folder>> \o @]

\* collection['item'].append(folder)
add_folder(collection, folder) == [collection EXCEPT !.item = Append(@, folder)]

(***************************************************************************)
(* The mapping BASE_PATHS, in the order of the dictionary, and the files   *)
(* under ROUTES_DIR.                                                       *)
(***************************************************************************)
BASE_PATHS ==
    <<[filename |-> "auth.ts",            base_path |-> "/api/auth"],
      [filename |-> "events.ts",          base_path |-> "/api/events"],
      [filename |-> "invitations.ts",     base_path |-> "/api/invitations"],
      [filename |-> "tours.ts",           base_path |-> "/api/tours"],
      [filename |-> "vehicles.ts",        base_path |-> "/api/vehicles"],
      [filename |-> "accommodations.ts",  base_path |-> "/api/accommodations"],
      [filename |-> "test.ts",            base_path |-> "/api/test"],
      [filename |-> "templates.ts",       base_path |-> "/api/templates"],
      [filename |-> "budgets.ts",         base_path |-> "/api/budgets"],
      [filename |-> "calendar.ts",        base_path |-> "/api/calendar"],
      [filename |-> "drafts.ts",          base_path |-> "/api/drafts"],
      [filename |-> "users.ts",           base_path |-> "/api/users"],
      [filename |-> "ecards.ts",          base_path |-> "/api/ecards"],
      [filename |-> "venues.ts",          base_path |-> "/api/venues"],
      [filename |-> "decorations.ts",     base_path |-> "/api/decorations"],
      [filename |-> "car-import.ts",      base_path |-> "/api/car-import"],
      [filename |-> "insurance.ts",       base_path |-> "/api/insurance"],
      [filename |-> "landing.ts",         base_path |-> "/api/landing"],
      [filename |-> "communications.ts",  base_path |-> "/api/communications"],
      [filename |-> "messagingRoutes.ts", base_path |-> "/api/messaging"],
      [filename |-> "whatsapp.routes.ts", base_path |-> "/api/whatsapp"],
      [filename |-> "webhooks.ts",        base_path |-> "/webhooks"]>>

\* os.path.exists(filepath) is false
Missing == [exists |-> FALSE, readable |-> FALSE, content |-> ""]

\* the path exists and open() or read() raises: a directory, a file the
\* process may not read, bytes that are no text in the encoding of the locale
Unreadable == [exists |-> TRUE, readable |-> FALSE, content |-> ""]

\* a file that decodes to the given text
File(text) == [exists |-> TRUE, readable |-> TRUE, content |-> text]

\* the files of the mapping a run of the model may find under ROUTES_DIR:
\* the first and the last entry, and two between; every other file is absent
PresentPool == {"auth.ts", "car-import.ts", "whatsapp.routes.ts", "webhooks.ts"}

FilePool ==
    { "router.get('/:id', handler)\r\nrouter.post('/', h)\r\n",
      "const x = 1;\n",
      "/**\n * @desc Remove it \n */\nrouter.delete('/old')\n\nrouter.put('/p', h)\nrouter.patch('/q', h)" }

\* pieces of route files, one or more lines each
ChunkPool ==
    { "/**\n * @route GET /api/foo/:id\n * @desc Fetch a foo by id\n */",
      "router.get('/:id', handler)",
      "  router.post (\"/bar/\", h)",
      "router.delete('/')",
      "app.use(x); router.put('/e//')",
      "router.patch('')",
      "router.use(auth)",
      "const x = 1;",
      "",
      "// see @desc Fetch",
      " * Plain summary",
      " * @desc",
      "// Setup\nconst y = 2;",
      "// List them\nrouter.get('/list', h)",
      "router.GET('/up')",
      "router.get('/a'); router.delete('/b')",
      "// router.put('/c')",
      "router.patch(\n  '/d', h)",
      " // Carried \r \f\t",
      "router.put (  '/v') \rrouter.use(x)" }

ScanBasePool == {"/api/foo", "/"}

ScanFile == "a.ts"

RECURSIVE join(_, _)
join(parts, sep) ==
    IF parts = <<>> THEN ""
    ELSE IF Len(parts) = 1 THEN parts[1]
    ELSE parts[1] \o sep \o join(Tail(parts), sep)

ScanTexts ==
    {join(chunks, "\n") : chunks \in UNION {[1..n -> ChunkPool] : n \in 0..MaxChunks}}

(***************************************************************************)
(* State.                                                                  *)
(***************************************************************************)
VARIABLES
    mapping,          \* BASE_PATHS: sequence of [filename, base_path]
    fs,               \* the files under ROUTES_DIR, by file name
    writable,         \* OUTPUT_FILE can be opened for writing
    pc,               \* "loop": between two entries; "scan": inside the line loop;
                      \* "done": returned; "raised": ended by an exception
    idx,              \* position in mapping of the entry being processed
    lines,            \* parse_route_file: content.split on newlines
    i,                \* parse_route_file: position of the next line
    current_comment,  \* parse_route_file: the documentation buffer
    routes,           \* parse_route_file: the records found so far
    collection,       \* generate_collection: the document under construction
    console,          \* what print has written
    output            \* the documents written to OUTPUT_FILE, oldest first

vars == <<mapping, fs, writable, pc, idx, lines, i, current_comment, routes, collection,
          console, output>>

InitRun ==
    /\ pc = "loop"
    /\ idx = 1
    /\ lines = <<>>
    /\ i = 1
    /\ current_comment = <<>>
    /\ routes = <<>>
    /\ collection = EmptyCollection
    /\ console = <<>>
    /\ output = <<>>

\* a run of generate_collection with up to MaxPresent files under ROUTES_DIR
Init ==
    /\ mapping = BASE_PATHS
    /\ \E present \in SUBSET PresentPool :
         /\ Cardinality(present) <= MaxPresent
         /\ \E found \in [present -> {Unreadable} \cup {File(t) : t \in FilePool}] :
              fs = [name \in {BASE_PATHS[k].filename : k \in 1..Len(BASE_PATHS)} |->
                       IF name \in present THEN found[name] ELSE Missing]
    /\ writable \in BOOLEAN
    /\ InitRun

\* parse_route_file called on one file, made of up to MaxChunks chunks, by a
\* run over a mapping of that one entry; the output cannot be written in
\* some of the runs over a file of at most one chunk
InitScan ==
    /\ \E b \in ScanBasePool : mapping = <<[filename |-> ScanFile, base_path |-> b]>>
    /\ fs \in [{ScanFile} -> {Missing, Unreadable} \cup {File(t) : t \in ScanTexts}]
    /\ writable \in (IF fs[ScanFile].content \in ChunkPool THEN BOOLEAN ELSE {TRUE})
    /\ InitRun

(***************************************************************************)
(* generate_collection, one step per loop iteration; the call of           *)
(* parse_route_file, one step per line.                                    *)
(***************************************************************************)
entry == mapping[idx]

\* os.path.join of two parts: an absolute second part stands alone
path_join(a, b) ==
    IF startswith(b, "/") THEN b
    ELSE IF a = "" \/ endswith(a, "/") THEN a \o b
    ELSE a \o "/" \o b

filepath == path_join(ROUTES_DIR, entry.filename)

Processing == "Processing " \o entry.filename \o "..."

line_at(k) == strip(lines[k])

LeaveFile ==
    /\ pc' = "loop"
    /\ idx' = idx + 1
    /\ lines' = <<>>
    /\ i' = 1
    /\ current_comment' = <<>>
    /\ routes' = <<>>

\* the file of the entry does not exist: a warning, no routes, next entry
ProcessMissing ==
    /\ pc = "loop"
    /\ idx <= Len(mapping)
    /\ ~fs[entry.filename].exists
    /\ console' = console \o <<Processing, "Warning: File not found: " \o filepath>>
    /\ idx' = idx + 1
    /\ UNCHANGED <<mapping, fs, writable, pc, lines, i, current_comment, routes, collection, output>>

\* the path exists and cannot be read: open() or read() raises, nothing
\* catches it, generate_collection ends there
OpenFails ==
    /\ pc = "loop"
    /\ idx <= Len(mapping)
    /\ fs[entry.filename].exists
    /\ ~fs[entry.filename].readable
    /\ console' = Append(console, Processing)
    /\ pc' = "raised"
    /\ UNCHANGED <<mapping, fs, writable, idx, lines, i, current_comment, routes, collection, output>>

\* the file exists: read it and split it into lines
OpenFile ==
    /\ pc = "loop"
    /\ idx <= Len(mapping)
    /\ fs[entry.filename].exists
    /\ fs[entry.filename].readable
    /\ console' = Append(console, Processing)
    /\ lines' = split(read_text(fs[entry.filename].content), "\n")
    /\ i' = 1
    /\ current_comment' = <<>>
    /\ routes' = <<>>
    /\ pc' = "scan"
    /\ UNCHANGED <<mapping, fs, writable, idx, collection, output>>

ScanComment ==
    /\ pc = "scan"
    /\ i <= Len(lines)
    /\ is_comment_line(line_at(i))
    /\ current_comment' = capture_comment(current_comment, line_at(i))
    /\ i' = i + 1
    /\ UNCHANGED <<mapping, fs, writable, pc, idx, lines, routes, collection, console, output>>

ScanRoute ==
    /\ pc = "scan"
    /\ i <= Len(lines)
    /\ ~is_comment_line(line_at(i))
    /\ re_search(line_at(i)).found
    /\ routes' = emit_route(routes,
                    route_record(re_search(line_at(i)), entry.base_path, current_comment))
    /\ current_comment' = reset_comment(current_comment)
    /\ i' = i + 1
    /\ UNCHANGED <<mapping, fs, writable, pc, idx, lines, collection, console, output>>

ScanBlank ==
    /\ pc = "scan"
    /\ i <= Len(lines)
    /\ ~is_comment_line(line_at(i))
    /\ ~re_search(line_at(i)).found
    /\ strip(line_at(i)) = ""
    /\ i' = i + 1
    /\ UNCHANGED <<mapping, fs, writable, pc, idx, lines, current_comment, routes,
                   collection, console, output>>

ScanCode ==
    /\ pc = "scan"
    /\ i <= Len(lines)
    /\ ~is_comment_line(line_at(i))
    /\ ~re_search(line_at(i)).found
    /\ strip(line_at(i)) # ""
    /\ current_comment' = after_code_line(current_comment, line_at(i))
    /\ i' = i + 1
    /\ UNCHANGED <<mapping, fs, writable, pc, idx, lines, routes, collection, console, output>>

\* parse_route_file returned no route: the entry adds nothing
SkipEmpty ==
    /\ pc = "scan"
    /\ i > Len(lines)
    /\ routes = <<>>
    /\ LeaveFile
    /\ UNCHANGED <<mapping, fs, writable, collection, console, output>>

\* parse_route_file returned routes: one folder, one request item per route
AddFolder ==
    /\ pc = "scan"
    /\ i > Len(lines)
    /\ routes # <<>>
    /\ collection' = add_folder(collection, folder_of(entry.base_path, routes))
    /\ LeaveFile
    /\ UNCHANGED <<mapping, fs, writable, console, output>>

\* after the last entry, OUTPUT_FILE cannot be opened for writing (its
\* directory is absent, no permission): open() raises, nothing catches it,
\* no document is written and no confirmation printed
WriteFails ==
    /\ pc = "loop"
    /\ idx > Len(mapping)
    /\ ~writable
    /\ pc' = "raised"
    /\ UNCHANGED <<mapping, fs, writable, idx, lines, i, current_comment, routes, collection,
                   console, output>>

\* after the last entry: json.dump to OUTPUT_FILE
WriteOutput ==
    /\ pc = "loop"
    /\ idx > Len(mapping)
    /\ writable
    /\ output' = Append(output, collection)
    /\ console' = Append(console, "Collection generated at " \o OUTPUT_FILE)
    /\ pc' = "done"
    /\ UNCHANGED <<mapping, fs, writable, idx, lines, i, current_comment, routes, collection>>

Next ==
    \/ ProcessMissing
    \/ OpenFails
    \/ OpenFile
    \/ ScanComment
    \/ ScanRoute
    \/ ScanBlank
    \/ ScanCode
    \/ SkipEmpty
    \/ AddFolder
    \/ WriteFails
    \/ WriteOutput

Spec == Init /\ [][Next]_vars

SpecScan == InitScan /\ [][Next]_vars

(***************************************************************************)
(* parse_route_file as a function of the file's text.                      *)
(***************************************************************************)
RECURSIVE scan_lines(_, _, _, _, _)
scan_lines(ls, k, base_path, comment, found) ==
    IF k > Len(ls) THEN found
    ELSE LET line == strip(ls[k])
         IN  IF is_comment_line(line)
             THEN scan_lines(ls, k + 1, base_path, capture_comment(comment, line), found)
             ELSE IF re_search(line).found
             THEN scan_lines(ls, k + 1, base_path, reset_comment(comment),
                             emit_route(found, route_record(re_search(line), base_path, comment)))
             ELSE IF strip(line) = ""
             THEN scan_lines(ls, k + 1, base_path, comment, found)
             ELSE scan_lines(ls, k + 1, base_path, after_code_line(comment, line), found)

\* what parse_route_file returns; it returns nothing when the read raises
parse_route_file(file, base_path) ==
    CASE ~file.exists -> <<>>
      [] file.exists /\ file.readable ->
           scan_lines(split(read_text(file.content), "\n"), 1, base_path, <<>>, <<>>)

TypeOK ==
    /\ pc \in {"loop", "scan", "done", "raised"}
    /\ idx \in 1..(Len(mapping) + 1)
    /\ i \in 1..(Len(lines) + 1)

(***************************************************************************)
(* Vocabulary of the properties.                                           *)
(***************************************************************************)
Last(seq) == seq[Len(seq)]

HttpMethods == {"GET", "POST", "PUT", "DELETE", "PATCH"}

\* the scanner has read the whole file and is about to return
ScanEnded == pc = "scan" /\ i > Len(lines)

\* line k of the file being scanned is one the scanner takes for a route
IsRouteLine(k) == ~is_comment_line(line_at(k)) /\ re_search(line_at(k)).found

IsCommentLine(k) == is_comment_line(line_at(k))

\* line k is neither documentation, nor a route, nor blank
IsCodeLine(k) == ~IsCommentLine(k) /\ ~IsRouteLine(k) /\ line_at(k) # ""

\* the scanner has just emitted a record for line i - 1
JustEmitted == pc = "scan" /\ i > 1 /\ IsRouteLine(i - 1)

\* every well-formed declaration of a text, wherever it stands, in order
RECURSIVE declarations_from(_, _)
declarations_from(text, k) ==
    LET d == search_from(text, k, Methods)
    IN  IF d.found THEN <<d>> \o declarations_from(text, d.end + 1) ELSE <<>>

Declarations(text) == declarations_from(text, 1)

\* the text of the file being scanned, as read
ScannedText == read_text(fs[entry.filename].content)

\* the upper-case form of each method name a declaration may carry
UpperCaseForm ==
    [get |-> "GET", post |-> "POST", put |-> "PUT", delete |-> "DELETE", patch |-> "PATCH"]

\* the records are those of the declarations ds, in the same order
RecordsFollow(rs, ds) ==
    /\ Len(rs) = Len(ds)
    /\ \A k \in 1..Len(ds) :
         /\ rs[k].method = UpperCaseForm[ds[k].method]
         /\ rs[k].path = full_path_of(entry.base_path, ds[k].path)

\* each declaration of the text lies on one line, alone on it, and the line
\* does not begin with a comment marker
OneDeclarationPerCodeLine(text) ==
    /\ \A k \in 1..Len(Declarations(text)) :
         LET d == Declarations(text)[k]
         IN  ~contains(SubSeq(text, d.start, d.end), "\n")
    /\ \A k \in 1..Len(split(text, "\n")) :
         LET line == split(text, "\n")[k]
         IN  /\ Len(Declarations(line)) <= 1
             /\ is_comment_line(strip(line)) => Declarations(line) = <<>>

\* C1 as stated: whatever the placement of the N well-formed declarations of
\* a text, parse_route_file returns N records, in declaration order.
C1_AnyPlacement ==
    ScanEnded => RecordsFollow(routes, Declarations(ScannedText))

\* C1, amended: when every well-formed declaration lies on a single line, no
\* line holds more than one, and no line holding one begins with a comment
\* marker, parse_route_file returns one record per declaration, in
\* declaration order.
C1_Completeness ==
    (ScanEnded /\ OneDeclarationPerCodeLine(ScannedText))
        => RecordsFollow(routes, Declarations(ScannedText))

C1_Witness ==
    /\ ScanEnded
    /\ OneDeclarationPerCodeLine(ScannedText)
    /\ Len(routes) = 2
    /\ routes[1].method # routes[2].method

\* the path of the record just emitted, against base path + sub-path
EmittedPath == Last(routes).path

DeclaredPath == entry.base_path \o re_search(line_at(i - 1)).path

\* C3 as stated: the emitted path is base path + sub-path with the trailing
\* slash stripped, and never ends with a slash unless it is the root.
C3_NoTrailingSlash ==
    JustEmitted =>
        /\ EmittedPath = DeclaredPath \/ EmittedPath \o "/" = DeclaredPath
        /\ endswith(EmittedPath, "/") => EmittedPath = "/"

\* C3, amended: the emitted path is base path + sub-path with one trailing
\* slash removed when that text ends with a slash and is longer than one
\* character; it ends with a slash only if it is the root or base path +
\* sub-path ended with two slashes.
C3_OneSlashStripped ==
    JustEmitted =>
        /\ (endswith(DeclaredPath, "/") /\ Len(DeclaredPath) > 1)
               => EmittedPath \o "/" = DeclaredPath
        /\ ~(endswith(DeclaredPath, "/") /\ Len(DeclaredPath) > 1)
               => EmittedPath = DeclaredPath
        /\ endswith(EmittedPath, "/")
               => (EmittedPath = "/" \/ endswith(DeclaredPath, "//"))

C3_Witness ==
    /\ JustEmitted
    /\ entry.base_path = "/api/foo"
    /\ re_search(line_at(i - 1)).path = "/bar/"
    /\ EmittedPath = "/api/foo/bar"

\* no documentation line stands before line k that is not followed, before
\* line k, by a route line
NoPendingDoc(k) ==
    \A j \in 1..(k - 1) :
        IsCommentLine(j) => \E m \in (j + 1)..(k - 1) : IsRouteLine(m)

FallbackNamed(r, subpath) ==
    /\ r.description = r.method \o " " \o r.path
    /\ r.name = r.method \o " " \o subpath

\* C6: the buffer is empty right after a route is emitted, and a route
\* recognised with no documentation line since the start of the file or the
\* previous route is described as "METHOD full_path" and named
\* "METHOD subpath".
C6_OneShot ==
    JustEmitted =>
        /\ current_comment = <<>>
        /\ NoPendingDoc(i - 1)
               => FallbackNamed(Last(routes), re_search(line_at(i - 1)).path)

\* the second of two adjacent declarations that follow a documented one
C6_Witness ==
    /\ JustEmitted
    /\ i > 3
    /\ IsCommentLine(i - 3)
    /\ IsRouteLine(i - 2)
    /\ Len(routes) = 2
    /\ routes[1].description = "List them"
    /\ FallbackNamed(routes[2], re_search(line_at(i - 1)).path)

\* the scanner is about to process line i
Scanning == pc = "scan" /\ i <= Len(lines)

\* the text that follows the first '@desc' marker of a buffered line, trimmed
AfterDescMarker(comment) ==
    strip(SubSeq(comment, find(comment, "@desc") + Len("@desc"), Len(comment)))

\* C2: a route recognised while the buffer holds a line with the '@desc'
\* marker gets name = description = the trimmed text that follows the marker
\* on that line, whatever else the buffer or the line holds.
C2_DescAttached ==
    [][(Scanning /\ IsRouteLine(i)
          /\ \E k \in 1..Len(current_comment) : contains(current_comment[k], "@desc"))
       => /\ Len(routes') = Len(routes) + 1
          /\ Last(routes').name = Last(routes').description
          /\ \E k \in 1..Len(current_comment) :
                /\ contains(current_comment[k], "@desc")
                /\ Last(routes').name = AfterDescMarker(current_comment[k])]_vars

\* C9 as stated: after any line that is neither blank, nor documentation,
\* nor a recognised route, the buffer is empty.
C9_AnyCodeLineClears ==
    (pc = "scan" /\ i > 1 /\ IsCodeLine(i - 1)) => current_comment = <<>>

\* a code line at j clears the buffer and no documentation follows it before k
ClearedBefore(k) ==
    \E j \in 1..(k - 1) :
        /\ IsCodeLine(j)
        /\ ~startswith(line_at(j), "router.")
        /\ \A m \in (j + 1)..(k - 1) : ~IsCommentLine(m)

\* C9, amended: after a line that is neither blank, nor documentation, nor a
\* recognised route, the buffer is empty unless the line begins with
\* 'router.'; such a line, like a blank line, leaves the buffer unchanged.
\* Hence no documentation is attached to a route when a clearing line lies
\* between the block and the declaration.
C9_CodeLineClears ==
    /\ [][(Scanning /\ IsCodeLine(i))
            => IF startswith(line_at(i), "router.")
               THEN current_comment' = current_comment
               ELSE current_comment' = <<>>]_vars
    /\ [][(Scanning /\ ~IsCommentLine(i) /\ ~IsRouteLine(i) /\ line_at(i) = "")
            => current_comment' = current_comment]_vars
    /\ []((JustEmitted /\ ClearedBefore(i - 1))
            => FallbackNamed(Last(routes), re_search(line_at(i - 1)).path))

\* a documentation line, then unrelated code: the buffer has been emptied
C9_Witness ==
    /\ pc = "scan"
    /\ i > 2
    /\ IsCommentLine(i - 2)
    /\ clean_comment(line_at(i - 2)) # ""
    /\ IsCodeLine(i - 1)
    /\ ~startswith(line_at(i - 1), "router.")
    /\ current_comment = <<>>

\* the spellings of the method names a source may use
AnyCaseMethods ==
    <<"get", "post", "put", "delete", "patch",
      "GET", "POST", "PUT", "DELETE", "PATCH",
      "Get", "Post", "Put", "Delete", "Patch">>

\* the line holds a declaration whose method is spelled in some letter case
DeclaredAnyCase(line) ==
    \E k \in 1..Len(line) : match_at(line, k, AnyCaseMethods).found

\* the line holds a declaration whose method is spelled in lower case
DeclaredLowerCase(line) ==
    \E k \in 1..Len(line) :
        LET d == match_at(line, k, AnyCaseMethods)
        IN  d.found /\ d.method \in DOMAIN UpperCaseForm

EmitsUpperCase ==
    /\ Len(routes') = Len(routes) + 1
    /\ Last(routes').method \in HttpMethods

\* C10 as stated: a declaration is recognised whatever the letter case of its
\* method name, and the record's method is the upper-case form.
C10_AnyCaseRecognised ==
    [][(Scanning /\ ~IsCommentLine(i) /\ DeclaredAnyCase(line_at(i)))
          => EmitsUpperCase]_vars

\* C10, amended: a declaration is recognised only when its method name is
\* spelled in lower case (router.get; router.GET and router.Post are not
\* recognised), and the record's method is then the upper-case form, one of
\* GET, POST, PUT, DELETE, PATCH.
C10_LowerCaseRecognised ==
    [][(Scanning /\ ~IsCommentLine(i))
          => IF DeclaredLowerCase(line_at(i))
             THEN EmitsUpperCase
             ELSE routes' = routes]_vars

\* an upper-case spelling passed over, then a lower-case one recognised
C10_Witness ==
    /\ pc = "scan"
    /\ i > 2
    /\ ~IsCommentLine(i - 2)
    /\ DeclaredAnyCase(line_at(i - 2))
    /\ ~DeclaredLowerCase(line_at(i - 2))
    /\ DeclaredLowerCase(line_at(i - 1))
    /\ Len(routes) = 1
    /\ routes[1].method = "POST"

\* the records parse_route_file returns for entry k of the mapping
RoutesOf(k) == parse_route_file(fs[mapping[k].filename], mapping[k].base_path)

\* the positions of the entries 1..n that yield at least one record, in order
RECURSIVE Yielding(_)
Yielding(n) ==
    IF n = 0 THEN <<>>
    ELSE IF RoutesOf(n) # <<>> THEN Append(Yielding(n - 1), n) ELSE Yielding(n - 1)

\* the request item stands for the record
ItemOf(item, r) ==
    /\ item.name = r.name
    /\ item.request.method = r.method
    /\ item.request.url.raw = "{{base_url}}" \o r.path
    /\ item.request.description = r.description

\* the folder stands for entry k: one item per record, in source order
FolderOf(folder, k) ==
    /\ folder.item # <<>>
    /\ Len(folder.item) = Len(RoutesOf(k))
    /\ \A j \in 1..Len(folder.item) : ItemOf(folder.item[j], RoutesOf(k)[j])

\* C4: once the whole mapping is processed (idx is past its last entry), the folders are exactly the
\* entries that yielded at least one record, in mapping order, none empty,
\* each with one request item per record of its file, in source order.
C4_Folders ==
    (idx > Len(mapping)) =>
        LET yielding == Yielding(Len(mapping))
        IN  /\ Len(collection.item) = Len(yielding)
            /\ \A k \in 1..Len(yielding) : FolderOf(collection.item[k], yielding[k])

\* a file without routes, absent files, a file with three routes: one folder
\* of three items
C4_Witness ==
    /\ pc = "done"
    /\ fs[mapping[1].filename].exists
    /\ RoutesOf(1) = <<>>
    /\ Len(output) = 1
    /\ Len(output[1].item) = 1
    /\ Len(output[1].item[1].item) = 3

\* what the run prints for the entries 1..n
RECURSIVE ConsoleOf(_)
ConsoleOf(n) ==
    IF n = 0 THEN <<>>
    ELSE ConsoleOf(n - 1)
           \o <<"Processing " \o mapping[n].filename \o "...">>
           \o (IF fs[mapping[n].filename].exists THEN <<>>
               ELSE <<"Warning: File not found: " \o ROUTES_DIR \o "/"
                        \o mapping[n].filename>>)

IsWarning(text) == startswith(text, "Warning: ")

\* the run is over: generate_collection has returned or an exception ended it
RunEnded == pc \in {"done", "raised"}

\* the final write has failed: an exception after the last entry
WriteFailed == pc = "raised" /\ idx > Len(mapping)

\* C5: whatever files are absent, the run processes every entry in mapping
\* order, each absent file gives exactly one warning and no folder, present
\* files give no warning, and the document is written exactly once, after the
\* last entry (a failure of that write, which is fatal by design, set aside).
C5_MissingIsNotFatal ==
    /\ Len(output) <= 1
    /\ output # <<>> => (pc = "done" /\ idx = Len(mapping) + 1)
    /\ (RunEnded /\ ~WriteFailed) =>
         /\ idx = Len(mapping) + 1
         /\ Len(output) = 1
         /\ console = Append(ConsoleOf(Len(mapping)),
                             "Collection generated at " \o OUTPUT_FILE)
         /\ Cardinality({k \in 1..Len(console) : IsWarning(console[k])})
              = Cardinality({k \in 1..Len(mapping) : ~fs[mapping[k].filename].exists})
         /\ Len(output[1].item)
              = Cardinality({k \in 1..Len(mapping) :
                                /\ fs[mapping[k].filename].exists
                                /\ RoutesOf(k) # <<>>})
    /\ (~RunEnded \/ WriteFailed)
         => console = ConsoleOf(IF pc = "scan" THEN idx ELSE idx - 1)

\* every request item of the document
AllItems(document) ==
    UNION {{document.item[f].item[j] : j \in 1..Len(document.item[f].item)}
             : f \in 1..Len(document.item)}

\* C7: a request item has a body exactly when its method is POST, PUT or
\* PATCH, and the body is then the raw placeholder.
C7_BodyPresence ==
    \A item \in AllItems(collection) :
        /\ ("body" \in DOMAIN item.request)
              <=> item.request.method \in {"POST", "PUT", "PATCH"}
        /\ "body" \in DOMAIN item.request
              => item.request.body = [mode |-> "raw", raw |-> "{\n    \n}"]

C7_Witness ==
    /\ \E item \in AllItems(collection) :
          item.request.method = "PATCH" /\ "body" \in DOMAIN item.request
    /\ \E item \in AllItems(collection) :
          item.request.method = "DELETE" /\ "body" \notin DOMAIN item.request

\* the base path without its '/api/' prefix and without any slash
FolderToken(base_path) ==
    replace(IF startswith(base_path, "/api/")
            THEN SubSeq(base_path, Len("/api/") + 1, Len(base_path))
            ELSE base_path, "/", "")

\* the upper-case form of a character of a base path of the mapping
UpperCaseOf(c) ==
    IF find("abcdefghijklmnopqrstuvwxyz", c) = 0 THEN c
    ELSE At("ABCDEFGHIJKLMNOPQRSTUVWXYZ", find("abcdefghijklmnopqrstuvwxyz", c))

\* a folder has just been added for the entry at idx - 1
JustAdded == pc = "loop" /\ idx > 1 /\ RoutesOf(idx - 1) # <<>>

\* C8: the folder added for an entry of the mapping is named by the entry's
\* base path without the '/api/' prefix and the slashes, its first character
\* in upper case, the others unchanged.
C8_FolderNaming ==
    JustAdded =>
        LET token == FolderToken(mapping[idx - 1].base_path)
            name  == Last(collection.item).name
        IN  /\ Len(name) = Len(token)
            /\ \A k \in 1..Len(token) :
                 At(name, k) = IF k = 1 THEN UpperCaseOf(At(token, k)) ELSE At(token, k)

\* the folder of car-import.ts, and before it the folder of auth.ts
C8_Witness ==
    /\ JustAdded
    /\ mapping[idx - 1].base_path = "/api/car-import"
    /\ Len(collection.item) = 2
    /\ collection.item[1].name = "Auth"
    /\ collection.item[2].name = "Car-import"

=============================================================================
